---- MODULE Spec2Model ----
(***************************************************************************)
(* The collector layer of tantivy: TopDocs (top_score_collector.rs) and    *)
(* MultiCollector (multi_collector.rs), driven by a query executor that    *)
(* scans the segments of one snapshot and merges the per-segment fruits.   *)
(* PositionSerializer (positions/serializer.rs), which is independent of   *)
(* the collectors, has its own specification, SpecPos.                     *)
(***************************************************************************)
EXTENDS Integers, Sequences, FiniteSets, TLC

\* ---------------------------------------------------------------- bounds
MaxLimit == 2        \* with_limit is called with 0..MaxLimit
MaxSegments == 2     \* a snapshot holds 0..MaxSegments segments
MaxDoc == 2          \* a segment holds the doc ids 0..MaxDoc-1
MaxScore == 1        \* scores are 0..MaxScore
MaxCollectors == 2   \* a MultiCollector registers at most MaxCollectors
COMPRESSION_BLOCK_SIZE == 3  \* the block length, scaled down from BitPacker4x::BLOCK_LEN
LONG_SKIP_IN_BLOCKS == 2     \* a long skip every LONG_SKIP_IN_BLOCKS blocks, scaled down
MaxVal == 1          \* the positions written are 0..MaxVal
MaxWrites == 13      \* a serializer is passed at most MaxWrites values
MaxSlice == 2        \* write_all is called with slices of 0..MaxSlice values

Limits == 0 .. MaxLimit
Segments == 0 .. (MaxSegments - 1)
DocIds == 0 .. (MaxDoc - 1)
Scores == 0 .. MaxScore

\* ------------------------------------------------------- values and types
\* Result<T>: Ok(val) or Err
Ok(v) == [ok |-> TRUE, val |-> v]
Err == [ok |-> FALSE, val |-> <<>>]

\* A value that may have panicked instead of being produced
Done(v) == [panic |-> FALSE, val |-> v]
Panic == [panic |-> TRUE, val |-> <<>>]

\* A collector value.  kind is "TopDocs", "TopDocsByField", "CountCollector"
\* or "MultiCollector"; only a MultiCollector has collector_wrappers.
Collector(kind, limit) == [kind |-> kind, limit |-> limit, collector_wrappers |-> <<>>]
NoCollector == [kind |-> "None", limit |-> 0, collector_wrappers |-> <<>>]

\* A segment collector value; only a MultiCollectorChild has children.
\* seen lists the (doc, score) arguments of the collect calls it received.
Child(kind, limit, segment_local_id) ==
    [kind |-> kind, limit |-> limit, segment_local_id |-> segment_local_id,
     heap |-> {}, count |-> 0, children |-> <<>>, seen |-> <<>>]
NoChild == [kind |-> "None", limit |-> 0, segment_local_id |-> 0,
            heap |-> {}, count |-> 0, children |-> <<>>, seen |-> <<>>]

\* A SegmentReader: whether the segment holds the fast field a field
\* ranking reads, and the column itself
SegmentReader(fast_field) == [fast_field |-> fast_field]
FastFieldGet(reader, doc) == doc

\* DocAddress(segment_local_id, doc), ordered as the derived Ord of the pair
DocAddress(segment_local_id, doc) == <<segment_local_id, doc>>
AddrLess(a, b) == a[1] < b[1] \/ (a[1] = b[1] /\ a[2] < b[2])

\* A ranking entry is <<feature, DocAddress>>.  e ranks strictly above f:
\* higher feature first, equal features by ascending address.
RanksAbove(e, f) == e[1] > f[1] \/ (e[1] = f[1] /\ AddrLess(e[2], f[2]))

\* ------------------------------------------------- TopCollector (top-K heap)
\* TopCollector::with_limit: a limit of 0 panics
TopCollector_with_limit(limit) ==
    IF limit < 1 THEN Panic ELSE Done([limit |-> limit])

\* the minimum of the min-oriented heap: the entry every other one ranks above
HeapPeek(heap) == CHOOSE m \in heap : \A e \in heap \ {m} : RanksAbove(e, m)

\* TopSegmentCollector::collect: insert while below capacity; at capacity
\* replace the minimum only by an entry that strictly ranks above it
TopSegmentCollector_collect(limit, heap, entry) ==
    IF Cardinality(heap) < limit
    THEN heap \cup {entry}
    ELSE IF RanksAbove(entry, HeapPeek(heap))
         THEN (heap \ {HeapPeek(heap)}) \cup {entry}
         ELSE heap

\* TopSegmentCollector::harvest: drain the heap, best entry first
RECURSIVE TopSegmentCollector_harvest(_)
TopSegmentCollector_harvest(heap) ==
    IF heap = {} THEN <<>>
    ELSE LET m == HeapPeek(heap)
         IN  Append(TopSegmentCollector_harvest(heap \ {m}), m)

\* the heap after pushing the entries of a sequence in order
RECURSIVE PushAll(_, _, _)
PushAll(limit, heap, entries) ==
    IF entries = <<>> THEN heap
    ELSE PushAll(limit, TopSegmentCollector_collect(limit, heap, Head(entries)),
                 Tail(entries))

RECURSIVE Concat(_)
Concat(seqs) == IF seqs = <<>> THEN <<>> ELSE Head(seqs) \o Concat(Tail(seqs))

\* TopCollector::merge_fruits: the same bounded selection over the
\* concatenation of the per-segment sequences
TopCollector_merge_fruits(limit, child_fruits) ==
    TopSegmentCollector_harvest(PushAll(limit, {}, Concat(child_fruits)))

\* ------------------------------------- TopDocs (top_score_collector.rs)
\* mutant of TopDocs_with_limit: a limit of 0 is raised to 1 instead of panicking
TopDocs_with_limit_clamped(limit) ==
    Done(Collector("TopDocs", IF limit < 1 THEN 1 ELSE limit))

\* TopDocs::with_limit: TopDocs(TopCollector::with_limit(limit))
TopDocs_with_limit(limit) ==
    LET inner == TopCollector_with_limit(limit)
    IN  IF inner.panic THEN Panic
        ELSE Done(Collector("TopDocs", inner.val.limit))

\* TopDocs::order_by_field: TopDocsByField::new(field, self.0.limit())
TopDocs_order_by_field(self) == Collector("TopDocsByField", self.limit)

\* TopCollector::for_segment: a fresh heap for the segment.  Ranking by
\* score needs nothing of the segment; ranking by field needs its fast field.
TopCollector_for_segment(by_field, limit, segment_local_id, reader) ==
    IF by_field /\ ~reader.fast_field THEN Err
    ELSE Ok(Child(IF by_field THEN "TopFieldSegmentCollector"
                  ELSE "TopSegmentCollector", limit, segment_local_id))

\* mutant of TopDocs_for_segment: the segment ordinal is not passed on
TopDocs_for_segment_ordinal0(self, segment_local_id, reader) ==
    LET collector == TopCollector_for_segment(FALSE, self.limit, 0, reader)
    IN  IF ~collector.ok THEN Err
        ELSE Ok([collector.val EXCEPT !.kind = "TopScoreSegmentCollector"])

\* TopDocs::for_segment: self.0.for_segment(..)? wrapped in
\* TopScoreSegmentCollector
TopDocs_for_segment(self, segment_local_id, reader) ==
    LET collector == TopCollector_for_segment(FALSE, self.limit, segment_local_id, reader)
    IN  IF ~collector.ok THEN Err
        ELSE Ok([collector.val EXCEPT !.kind = "TopScoreSegmentCollector"])

\* TopDocs::requires_scoring
TopDocs_requires_scoring(self) == TRUE

\* mutant of TopScoreSegmentCollector_collect: the entry is pushed whatever
\* the heap holds
TopScoreSegmentCollector_collect_push(self, doc, score) ==
    [self EXCEPT !.heap = @ \cup {<<score, DocAddress(self.segment_local_id, doc)>>}]

\* TopScoreSegmentCollector::collect: self.0.collect(doc, score)
TopScoreSegmentCollector_collect(self, doc, score) ==
    [self EXCEPT !.heap = TopSegmentCollector_collect(self.limit, self.heap,
                              <<score, DocAddress(self.segment_local_id, doc)>>)]

\* mutant of TopScoreSegmentCollector_harvest: the heap is drained lowest
\* entry first and handed over as drained
TopScoreSegmentCollector_harvest_ascending(self) ==
    LET best_first == TopSegmentCollector_harvest(self.heap)
    IN  [k \in DOMAIN best_first |-> best_first[Len(best_first) + 1 - k]]

\* TopScoreSegmentCollector::harvest: self.0.harvest()
TopScoreSegmentCollector_harvest(self) == TopSegmentCollector_harvest(self.heap)

\* mutant of TopDocs_merge_fruits: the concatenation is cut to the limit
\* without ranking it again
TopDocs_merge_fruits_truncate(self, child_fruits) ==
    SubSeq(Concat(child_fruits), 1,
           IF Len(Concat(child_fruits)) < self.limit
           THEN Len(Concat(child_fruits)) ELSE self.limit)

\* mutant of TopDocs_merge_fruits: the entries of the first fruit are kept
\* ahead of every later one
TopDocs_merge_fruits_first_kept(self, child_fruits) ==
    IF child_fruits = <<>> THEN <<>>
    ELSE LET first == Head(child_fruits)
             others == TopCollector_merge_fruits(self.limit, Tail(child_fruits))
             all == first \o others
         IN  SubSeq(all, 1, IF Len(all) < self.limit THEN Len(all) ELSE self.limit)

\* TopDocs::merge_fruits: self.0.merge_fruits(child_fruits)
TopDocs_merge_fruits(self, child_fruits) ==
    TopCollector_merge_fruits(self.limit, child_fruits)

\* --------------------------------------------- the other leaf collectors
\* TopDocsByField: the same heap keyed by the document's fast field value
TopDocsByField_for_segment(self, segment_local_id, reader) ==
    TopCollector_for_segment(TRUE, self.limit, segment_local_id, reader)

TopFieldSegmentCollector_collect(self, reader, doc, score) ==
    [self EXCEPT !.heap = TopSegmentCollector_collect(self.limit, self.heap,
          <<FastFieldGet(reader, doc), DocAddress(self.segment_local_id, doc)>>)]

\* CountCollector: counts the collect calls; merge adds the counts up
CountCollector_for_segment(self, segment_local_id, reader) ==
    Ok(Child("CountSegmentCollector", 0, segment_local_id))

CountSegmentCollector_collect(self, doc, score) ==
    [self EXCEPT !.count = self.count + 1]

RECURSIVE Sum(_)
Sum(counts) == IF counts = <<>> THEN 0 ELSE Head(counts) + Sum(Tail(counts))

CountCollector_merge_fruits(self, child_fruits) == Sum(child_fruits)

\* ------------------------- the Collector / SegmentCollector traits, by kind
Leaf_for_segment(c, segment_local_id, reader) ==
    CASE c.kind = "TopDocs" -> TopDocs_for_segment(c, segment_local_id, reader)
      [] c.kind = "TopDocsByField" -> TopDocsByField_for_segment(c, segment_local_id, reader)
      [] c.kind = "CountCollector" -> CountCollector_for_segment(c, segment_local_id, reader)

Leaf_requires_scoring(c) ==
    CASE c.kind = "TopDocs" -> TopDocs_requires_scoring(c)
      [] c.kind = "TopDocsByField" -> FALSE
      [] c.kind = "CountCollector" -> FALSE

Leaf_merge_fruits(c, child_fruits) ==
    CASE c.kind = "TopDocs" -> TopDocs_merge_fruits(c, child_fruits)
      [] c.kind = "TopDocsByField" -> TopCollector_merge_fruits(c.limit, child_fruits)
      [] c.kind = "CountCollector" -> CountCollector_merge_fruits(c, child_fruits)

LeafChild_collect(child, reader, doc, score) ==
    LET after ==
          CASE child.kind = "TopScoreSegmentCollector" ->
                   TopScoreSegmentCollector_collect(child, doc, score)
            [] child.kind = "TopFieldSegmentCollector" ->
                   TopFieldSegmentCollector_collect(child, reader, doc, score)
            [] child.kind = "CountSegmentCollector" ->
                   CountSegmentCollector_collect(child, doc, score)
    IN  [after EXCEPT !.seen = Append(@, <<doc, score>>)]

LeafChild_harvest(child) ==
    CASE child.kind = "TopScoreSegmentCollector" -> TopScoreSegmentCollector_harvest(child)
      [] child.kind = "TopFieldSegmentCollector" -> TopSegmentCollector_harvest(child.heap)
      [] child.kind = "CountSegmentCollector" -> child.count

\* the associated types: Collector::Child and SegmentCollector::Fruit
ChildType(c) ==
    CASE c.kind = "TopDocs" -> "TopScoreSegmentCollector"
      [] c.kind = "TopDocsByField" -> "TopFieldSegmentCollector"
      [] c.kind = "CountCollector" -> "CountSegmentCollector"

FruitTypeOfChild(child_kind) ==
    CASE child_kind = "TopScoreSegmentCollector" -> "Vec<(Score, DocAddress)>"
      [] child_kind = "TopFieldSegmentCollector" -> "Vec<(T, DocAddress)>"
      [] child_kind = "CountSegmentCollector" -> "usize"

\* --------------------------------- MultiCollector (multi_collector.rs)
\* AnyFruit(Box<CollectorFruit>): a boxed fruit and its concrete type
AnyFruit(type, value) == [type |-> type, value |-> value]

\* Downcast::<T>::downcast(any): Ok(the value) when any holds a T
Downcast(T, any) == IF any.type = T THEN Ok(any.value) ELSE Err

\* CollectorWrapper(collector): holds the reference to the collector
CollectorWrapper(collector) == collector

\* <CollectorWrapper as UntypedCollector>::for_segment
CollectorWrapper_for_segment(self, segment_local_id, segment) ==
    LET segment_collector == Leaf_for_segment(self, segment_local_id, segment)
    IN  IF ~segment_collector.ok THEN Err ELSE Ok(segment_collector.val)

\* <CollectorWrapper as UntypedCollector>::requires_scoring
CollectorWrapper_requires_scoring(self) == Leaf_requires_scoring(self)

\* the type merge_children_anys downcasts every AnyFruit to: TCollector::Child
DowncastTarget(self) == ChildType(self)

\* <CollectorWrapper as UntypedCollector>::merge_children_anys: downcast and
\* unwrap every child, merge the typed values, box the result
CollectorWrapper_merge_children_anys(self, childrens) ==
    LET typed_children == [k \in DOMAIN childrens |->
                              Downcast(DowncastTarget(self), childrens[k])]
    IN  IF \E k \in DOMAIN childrens : ~typed_children[k].ok
        THEN Panic
        ELSE Done(AnyFruit(FruitTypeOfChild(ChildType(self)),
                    Leaf_merge_fruits(self,
                        [k \in DOMAIN childrens |-> typed_children[k].val])))

\* MultiCollector::new
MultiCollector_new ==
    [kind |-> "MultiCollector", limit |-> 0, collector_wrappers |-> <<>>]

\* MultiCollector::add_collector: push the wrapper at the end
MultiCollector_add_collector(self, collector) ==
    [self EXCEPT !.collector_wrappers = Append(@, CollectorWrapper(collector))]

\* mutant of MultiCollector_for_segment: a wrapper whose for_segment fails
\* is left out of the composite
MultiCollector_for_segment_skip(self, segment_local_id, segment) ==
    LET built == [i \in DOMAIN self.collector_wrappers |->
            CollectorWrapper_for_segment(self.collector_wrappers[i],
                                         segment_local_id, segment)]
        kept == SelectSeq(built, LAMBDA r : r.ok)
    IN  Ok([Child("MultiCollectorChild", 0, segment_local_id) EXCEPT
               !.children = [i \in DOMAIN kept |-> kept[i].val]])

\* MultiCollector::for_segment: every wrapper's segment collector, in the
\* wrappers' order; the first error is returned instead
MultiCollector_for_segment(self, segment_local_id, segment) ==
    LET children == [i \in DOMAIN self.collector_wrappers |->
            CollectorWrapper_for_segment(self.collector_wrappers[i],
                                         segment_local_id, segment)]
    IN  IF \E i \in DOMAIN children : ~children[i].ok
        THEN Err
        ELSE Ok([Child("MultiCollectorChild", 0, segment_local_id) EXCEPT
                   !.children = [i \in DOMAIN children |-> children[i].val]])

\* mutant of MultiCollector_requires_scoring: all() in place of any()
MultiCollector_requires_scoring_all(self) ==
    \A i \in DOMAIN self.collector_wrappers :
        CollectorWrapper_requires_scoring(self.collector_wrappers[i])

\* MultiCollector::requires_scoring: any(|c| c.requires_scoring())
MultiCollector_requires_scoring(self) ==
    \E i \in DOMAIN self.collector_wrappers :
        CollectorWrapper_requires_scoring(self.collector_wrappers[i])

\* mutant of SegmentFruitsList: the loop over the segments starts one late
SegmentFruitsList_skip1(n, segments_multifruits) ==
    [idx \in 1 .. n |->
        LET has == SelectSeq(SubSeq(segments_multifruits, 2, Len(segments_multifruits)),
                             LAMBDA mf : Len(mf) >= idx)
        IN  [s \in 1 .. Len(has) |-> has[s][idx]]]

\* the first loop of MultiCollector::merge_fruits: segment_fruits_list[idx]
\* receives the idx-th fruit of every segment, in the segments' order
SegmentFruitsList(n, segments_multifruits) ==
    [idx \in 1 .. n |->
        LET has == SelectSeq(segments_multifruits, LAMBDA mf : Len(mf) >= idx)
        IN  [s \in 1 .. Len(has) |-> has[s][idx]]]

\* MultiCollector::merge_fruits: transpose, then every wrapper merges its own
\* list.  segment_fruits_list[idx] panics for an idx past the wrappers.
MultiCollector_merge_fruits(self, segments_multifruits) ==
    LET n == Len(self.collector_wrappers)
        segment_fruits_list == SegmentFruitsList(n, segments_multifruits)
        merged == [i \in 1 .. n |->
            CollectorWrapper_merge_children_anys(self.collector_wrappers[i],
                                                 segment_fruits_list[i])]
    IN  IF \E s \in DOMAIN segments_multifruits : Len(segments_multifruits[s]) > n
        THEN Panic
        ELSE IF \E i \in 1 .. n : merged[i].panic
        THEN Panic
        ELSE Done([i \in 1 .. n |-> merged[i].val])

\* mutant of MultiCollectorChild_collect: the loop stops before the last child
MultiCollectorChild_collect_but_last(self, reader, doc, score) ==
    [self EXCEPT !.children =
        [i \in DOMAIN @ |-> IF i < Len(@) THEN LeafChild_collect(@[i], reader, doc, score)
                            ELSE @[i]],
                 !.seen = Append(@, <<doc, score>>)]

\* MultiCollectorChild::collect: for child in &mut self.children
\* { child.collect(doc, score); }
MultiCollectorChild_collect(self, reader, doc, score) ==
    [self EXCEPT !.children =
        [i \in DOMAIN @ |-> LeafChild_collect(@[i], reader, doc, score)],
                 !.seen = Append(@, <<doc, score>>)]

\* mutant of MultiCollectorChild_into_iter: every child is visited twice
MultiCollectorChild_into_iter_twice(self) ==
    [k \in DOMAIN self.children |-> k] \o [k \in DOMAIN self.children |-> k]

\* mutant of MultiCollectorChild_into_iter: the children are visited last first
MultiCollectorChild_into_iter_rev(self) ==
    [k \in DOMAIN self.children |-> Len(self.children) + 1 - k]

\* MultiCollectorChild::harvest: self.children.into_iter() visits every
\* child once, in order
MultiCollectorChild_into_iter(self) == [k \in DOMAIN self.children |-> k]

\* MultiCollectorChild::harvest: .map(|child| Box::new(child.harvest()))
MultiCollectorChild_harvest(self) ==
    LET order == MultiCollectorChild_into_iter(self)
    IN  [k \in DOMAIN order |->
            AnyFruit(FruitTypeOfChild(self.children[order[k]].kind),
                     LeafChild_harvest(self.children[order[k]]))]

\* ------------------------------------ what the executor calls, by kind
IsMulti(c) == c.kind = "MultiCollector"

Collector_for_segment(c, segment_local_id, reader) ==
    IF IsMulti(c) THEN MultiCollector_for_segment(c, segment_local_id, reader)
    ELSE Leaf_for_segment(c, segment_local_id, reader)

Collector_requires_scoring(c) ==
    IF IsMulti(c) THEN MultiCollector_requires_scoring(c)
    ELSE Leaf_requires_scoring(c)

Collector_merge_fruits(c, child_fruits) ==
    IF IsMulti(c) THEN MultiCollector_merge_fruits(c, child_fruits)
    ELSE Done(Leaf_merge_fruits(c, child_fruits))

SegmentCollector_collect(child, reader, doc, score) ==
    IF child.kind = "MultiCollectorChild"
    THEN MultiCollectorChild_collect(child, reader, doc, score)
    ELSE LeafChild_collect(child, reader, doc, score)

SegmentCollector_harvest(child) ==
    IF child.kind = "MultiCollectorChild" THEN MultiCollectorChild_harvest(child)
    ELSE LeafChild_harvest(child)

\* the children a harvest of this segment collector harvests, in order
SegmentCollector_harvested(child) ==
    IF child.kind = "MultiCollectorChild" THEN MultiCollectorChild_into_iter(child)
    ELSE <<1>>

\* --------------------------- PositionSerializer (positions/serializer.rs)
\* positions::LONG_SKIP_INTERVAL: a whole number of blocks
LONG_SKIP_INTERVAL == LONG_SKIP_IN_BLOCKS * COMPRESSION_BLOCK_SIZE

Vals == 0 .. MaxVal
Slices == UNION {[1 .. n -> Vals] : n \in 0 .. MaxSlice}

\* what the two io::Write streams do during one call: "ok", or the point
\* where a write returns an error
WriteOutcomes == {"ok", "write_skiplist", "write_stream"}
CloseOutcomes == WriteOutcomes \cup {"serialize", "flush"}

\* io::Result<()> of a method, with the serializer as the method left it
IoOk(self) == [ok |-> TRUE, self |-> self]
IoErr(self) == [ok |-> FALSE, self |-> self]

\* what reaches write_skiplist: an integer in a number of bytes
Bytes(bytes, val) == [bytes |-> bytes, val |-> val]

\* BitPacker::num_bits: the bits the largest value of the block needs
RECURSIVE BitLen(_)
BitLen(v) == IF v = 0 THEN 0 ELSE 1 + BitLen(v \div 2)
RECURSIVE MaxOf(_)
MaxOf(block) ==
    IF block = <<>> THEN 0
    ELSE IF Head(block) > MaxOf(Tail(block)) THEN Head(block) ELSE MaxOf(Tail(block))
BitPacker_num_bits(block) == BitLen(MaxOf(block))

\* BitPacker::compress: the block packed at num_bits bits a value, left in
\* the buffer; the returned length is counted in bits
BitPacker_compress(block, num_bits) ==
    [buffer |-> [num_bits |-> num_bits, ints |-> block],
     written_len |-> num_bits * Len(block)]

\* PositionSerializer::new
PositionSerializer_new ==
    [write_stream |-> <<>>, write_skiplist |-> <<>>, block |-> <<>>,
     buffer |-> [num_bits |-> 0, ints |-> <<>>],
     num_ints |-> 0, long_skips |-> <<>>, cumulated_num_bits |-> 0]

\* PositionSerializer::positions_idx
PositionSerializer_positions_idx(self) == self.num_ints

\* mutant of PositionSerializer_flush_block: the block is not cleared
PositionSerializer_flush_block_keep(self, io) ==
    LET num_bits == BitPacker_num_bits(self.block)
        packed == BitPacker_compress(self.block, num_bits)
        s1 == [self EXCEPT !.cumulated_num_bits = @ + num_bits]
        s2 == [s1 EXCEPT !.write_skiplist = Append(@, Bytes(1, num_bits)),
                         !.buffer = packed.buffer]
        s3 == [s2 EXCEPT !.write_stream = Append(@, packed.written_len)]
    IN  IF io = "write_skiplist" THEN IoErr(s1)
        ELSE IF io = "write_stream" THEN IoErr(s2)
        ELSE IF s3.num_ints % LONG_SKIP_INTERVAL = 0
        THEN IoOk([s3 EXCEPT !.long_skips = Append(@, s3.cumulated_num_bits)])
        ELSE IoOk(s3)

\* PositionSerializer::flush_block: num_bits goes to the skip list, the
\* packed block to the stream, the block is cleared, and a long skip is
\* recorded at every multiple of LONG_SKIP_INTERVAL.  A failed write
\* returns at once.
PositionSerializer_flush_block(self, io) ==
    LET num_bits == BitPacker_num_bits(self.block)
        packed == BitPacker_compress(self.block, num_bits)
        s1 == [self EXCEPT !.cumulated_num_bits = @ + num_bits]
        s2 == [s1 EXCEPT !.write_skiplist = Append(@, Bytes(1, num_bits)),
                         !.buffer = packed.buffer]
        s3 == [s2 EXCEPT !.write_stream = Append(@, packed.written_len),
                         !.block = <<>>]
    IN  IF io = "write_skiplist" THEN IoErr(s1)
        ELSE IF io = "write_stream" THEN IoErr(s2)
        ELSE IF s3.num_ints % LONG_SKIP_INTERVAL = 0
        THEN IoOk([s3 EXCEPT !.long_skips = Append(@, s3.cumulated_num_bits)])
        ELSE IoOk(s3)

\* PositionSerializer::write: push, count, flush a full block
PositionSerializer_write(self, val, io) ==
    LET pushed == [self EXCEPT !.block = Append(@, val), !.num_ints = @ + 1]
    IN  IF Len(pushed.block) = COMPRESSION_BLOCK_SIZE
        THEN PositionSerializer_flush_block(pushed, io)
        ELSE IoOk(pushed)

\* PositionSerializer::write_all: for &val in vals { self.write(val)?; }
RECURSIVE PositionSerializer_write_all(_, _, _)
PositionSerializer_write_all(self, vals, io) ==
    IF vals = <<>> THEN IoOk(self)
    ELSE LET r == PositionSerializer_write(self, Head(vals), io)
         IN  IF ~r.ok THEN r
             ELSE PositionSerializer_write_all(r.self, Tail(vals), io)

\* Vec::resize(new_len, value)
Resize(vec, new_len, value) ==
    [k \in 1 .. new_len |-> IF k <= Len(vec) THEN vec[k] ELSE value]

\* mutant of PositionSerializer_close: the pending block is flushed as it is
PositionSerializer_close_unpadded(self, io) ==
    LET flushed ==
          IF self.block # <<>>
          THEN PositionSerializer_flush_block(self,
                   IF io \in {"write_skiplist", "write_stream"} THEN io ELSE "ok")
          ELSE IoOk(self)
        serialized ==
          [flushed.self EXCEPT !.write_skiplist =
              @ \o [k \in DOMAIN flushed.self.long_skips |->
                        Bytes(8, flushed.self.long_skips[k])]
                \o <<Bytes(4, Len(flushed.self.long_skips))>>]
    IN  IF ~flushed.ok THEN flushed
        ELSE IF io = "serialize" THEN IoErr(flushed.self)
        ELSE IF io = "flush" THEN IoErr(serialized)
        ELSE IoOk(serialized)

\* PositionSerializer::close: a non-empty block is resized to a whole block
\* with zeros and flushed; then every long skip (u64) and their number
\* (u32) go to the skip list, and both streams are flushed
PositionSerializer_close(self, io) ==
    LET flushed ==
          IF self.block # <<>>
          THEN PositionSerializer_flush_block(
                   [self EXCEPT !.block = Resize(@, COMPRESSION_BLOCK_SIZE, 0)],
                   IF io \in {"write_skiplist", "write_stream"} THEN io ELSE "ok")
          ELSE IoOk(self)
        serialized ==
          [flushed.self EXCEPT !.write_skiplist =
              @ \o [k \in DOMAIN flushed.self.long_skips |->
                        Bytes(8, flushed.self.long_skips[k])]
                \o <<Bytes(4, Len(flushed.self.long_skips))>>]
    IN  IF ~flushed.ok THEN flushed
        ELSE IF io = "serialize" THEN IoErr(flushed.self)
        ELSE IF io = "flush" THEN IoErr(serialized)
        ELSE IoOk(serialized)

\* ------------------------------------------------------------- the state
VARIABLES
    pc,                  \* "setup", "scan", "merged", "aborted", "panicked"
    made,                \* the collector just constructed, not yet handed over
    collector,           \* the MultiCollector being filled, then the query's collector
    limit_arg,           \* the argument of the latest with_limit call, -1 before it
    scoring,             \* what requires_scoring() told the executor
    num_segments,        \* the number of segments of the snapshot
    readers,             \* the SegmentReader each for_segment call was given
    seg_state,           \* per segment: "Unstarted", "Collecting", "Harvested"
    segment_collectors,  \* per segment: its live segment collector
    seglog,              \* per segment: the (doc, score) events collected
    harvested_children,  \* per segment: the children its harvest harvested
    fruits,              \* the per-segment fruits gathered so far, in harvest order
    segment_fruits_list, \* the lists MultiCollector::merge_fruits handed its wrappers
    merge_calls,         \* how often the executor called merge_fruits
    final,               \* the final fruit, once merged
    error,               \* "none", "with_limit", "for_segment", "downcast"
    serializer,          \* the PositionSerializer and its two streams
    pos_pc,              \* "open", "closed": whether close has consumed it
    num_written,         \* the values passed by the calls that returned Ok
    all_ok               \* whether every call on the serializer returned Ok

vars == <<pc, made, collector, limit_arg, scoring, num_segments, readers,
          seg_state, segment_collectors, seglog, harvested_children, fruits,
          segment_fruits_list, merge_calls, final, error,
          serializer, pos_pc, num_written, all_ok>>

config_vars == <<made, collector, limit_arg, scoring, num_segments>>
scan_vars == <<readers, seg_state, segment_collectors, seglog,
               harvested_children, fruits>>
merge_vars == <<segment_fruits_list, merge_calls, final>>
pos_vars == <<serializer, pos_pc, num_written, all_ok>>
collector_vars == <<pc, config_vars, scan_vars, merge_vars, error>>

NoFruit == [some |-> FALSE, value |-> <<>>]
SomeFruit(v) == [some |-> TRUE, value |-> v]

Init ==
    /\ pc = "setup"
    /\ made = NoCollector
    /\ collector = NoCollector
    /\ limit_arg = -1
    /\ scoring = FALSE
    /\ num_segments = 0
    /\ readers = [s \in Segments |-> SegmentReader(TRUE)]
    /\ seg_state = [s \in Segments |-> "Unstarted"]
    /\ segment_collectors = [s \in Segments |-> NoChild]
    /\ seglog = [s \in Segments |-> <<>>]
    /\ harvested_children = [s \in Segments |-> <<>>]
    /\ fruits = <<>>
    /\ segment_fruits_list = <<>>
    /\ merge_calls = 0
    /\ final = NoFruit
    /\ error = "none"
    /\ serializer = PositionSerializer_new
    /\ pos_pc = "open"
    /\ num_written = 0
    /\ all_ok = TRUE

\* ----------------------------------------------- building the collector
\* let c = TopDocs::with_limit(limit)
WithLimit(limit) ==
    /\ pc = "setup" /\ made.kind = "None"
    /\ limit_arg' = limit
    /\ LET r == TopDocs_with_limit(limit)
       IN  IF r.panic
           THEN pc' = "panicked" /\ error' = "with_limit" /\ made' = made
           ELSE pc' = pc /\ error' = error /\ made' = r.val
    /\ UNCHANGED <<collector, scoring, num_segments, scan_vars, merge_vars,
                   pos_vars>>

\* let c = c.order_by_field(field)
OrderByField ==
    /\ pc = "setup" /\ made.kind = "TopDocs"
    /\ made' = TopDocs_order_by_field(made)
    /\ UNCHANGED <<pc, collector, limit_arg, scoring, num_segments, scan_vars,
                   merge_vars, error, pos_vars>>

\* let c = CountCollector::default()
CountDefault ==
    /\ pc = "setup" /\ made.kind = "None"
    /\ made' = Collector("CountCollector", 0)
    /\ UNCHANGED <<pc, collector, limit_arg, scoring, num_segments, scan_vars,
                   merge_vars, error, pos_vars>>

\* let mut collectors = MultiCollector::new()
MultiNew ==
    /\ pc = "setup" /\ collector.kind = "None" /\ made.kind = "None"
    /\ collector' = MultiCollector_new
    /\ UNCHANGED <<pc, made, limit_arg, scoring, num_segments, scan_vars,
                   merge_vars, error, pos_vars>>

\* collectors.add_collector(&mut c)
AddCollector ==
    /\ pc = "setup" /\ IsMulti(collector) /\ made.kind # "None"
    /\ Len(collector.collector_wrappers) < MaxCollectors
    /\ collector' = MultiCollector_add_collector(collector, made)
    /\ made' = NoCollector
    /\ UNCHANGED <<pc, limit_arg, scoring, num_segments, scan_vars, merge_vars,
                   error, pos_vars>>

\* ------------------------------------------------------------ the executor
\* searcher.search(query, collector) over a snapshot of n segments: asks
\* requires_scoring() once, before any segment is scanned
Search(n) ==
    /\ pc = "setup"
    /\ \/ IsMulti(collector) /\ made.kind = "None" /\ collector' = collector
       \/ collector.kind = "None" /\ made.kind # "None" /\ collector' = made
    /\ made' = NoCollector
    /\ scoring' = Collector_requires_scoring(collector')
    /\ num_segments' = n
    /\ pc' = "scan"
    /\ UNCHANGED <<limit_arg, scan_vars, merge_vars, error, pos_vars>>

\* whether any collector of c reads the fast field
ReadsFastField(c) ==
    \/ c.kind = "TopDocsByField"
    \/ \E i \in DOMAIN c.collector_wrappers :
          c.collector_wrappers[i].kind = "TopDocsByField"

\* collector.for_segment(s, reader)?: an error aborts the query.  Whether the
\* segment holds the fast field is only looked at by a field ranking, so the
\* reader is drawn without it only when one is registered.
ForSegment(s, fast_field) ==
    /\ pc = "scan" /\ s < num_segments /\ seg_state[s] = "Unstarted"
    /\ fast_field \/ ReadsFastField(collector)
    /\ readers' = [readers EXCEPT ![s] = SegmentReader(fast_field)]
    /\ LET r == Collector_for_segment(collector, s, readers'[s])
       IN  IF r.ok
           THEN /\ segment_collectors' = [segment_collectors EXCEPT ![s] = r.val]
                /\ seg_state' = [seg_state EXCEPT ![s] = "Collecting"]
                /\ UNCHANGED <<pc, error>>
           ELSE /\ pc' = "aborted" /\ error' = "for_segment"
                /\ UNCHANGED <<segment_collectors, seg_state>>
    /\ UNCHANGED <<config_vars, seglog, harvested_children, fruits, merge_vars,
                   pos_vars>>

\* the doc ids the scan of a segment may present next: ascending
NextDocs(log) == {d \in DocIds : \A k \in DOMAIN log : log[k][1] < d}

\* the score the executor passes: a placeholder when scoring is not required
ScoresPassed == IF scoring THEN Scores ELSE {0}

\* segment_collector.collect(doc, score)
Collect(s, doc, score) ==
    /\ pc = "scan" /\ seg_state[s] = "Collecting"
    /\ doc \in NextDocs(seglog[s]) /\ score \in ScoresPassed
    /\ segment_collectors' = [segment_collectors EXCEPT ![s] =
           SegmentCollector_collect(@, readers[s], doc, score)]
    /\ seglog' = [seglog EXCEPT ![s] = Append(@, <<doc, score>>)]
    /\ UNCHANGED <<pc, config_vars, readers, seg_state, harvested_children,
                   fruits, merge_vars, error, pos_vars>>

\* let fruit = segment_collector.harvest(): the collector is moved away
Harvest(s) ==
    /\ pc = "scan" /\ seg_state[s] = "Collecting"
    /\ fruits' = Append(fruits, [segment |-> s,
                     fruit |-> SegmentCollector_harvest(segment_collectors[s])])
    /\ harvested_children' = [harvested_children EXCEPT ![s] =
           @ \o SegmentCollector_harvested(segment_collectors[s])]
    /\ segment_collectors' = [segment_collectors EXCEPT ![s] = NoChild]
    /\ seg_state' = [seg_state EXCEPT ![s] = "Harvested"]
    /\ UNCHANGED <<pc, config_vars, readers, seglog, merge_vars, error, pos_vars>>

\* the fruits handed to merge_fruits: one per gathered segment
GatheredFruits == [k \in DOMAIN fruits |-> fruits[k].fruit]

\* collector.merge_fruits(fruits), once every segment is harvested
Merge ==
    /\ pc = "scan"
    /\ \A s \in Segments : s < num_segments => seg_state[s] = "Harvested"
    /\ merge_calls' = merge_calls + 1
    /\ segment_fruits_list' =
           IF IsMulti(collector)
           THEN SegmentFruitsList(Len(collector.collector_wrappers), GatheredFruits)
           ELSE <<>>
    /\ LET r == Collector_merge_fruits(collector, GatheredFruits)
       IN  IF r.panic
           THEN pc' = "panicked" /\ error' = "downcast" /\ final' = final
           ELSE pc' = "merged" /\ error' = error /\ final' = SomeFruit(r.val)
    /\ UNCHANGED <<config_vars, scan_vars, pos_vars>>

Next ==
    \/ \E limit \in Limits : WithLimit(limit)
    \/ OrderByField
    \/ CountDefault
    \/ MultiNew
    \/ AddCollector
    \/ \E n \in 0 .. MaxSegments : Search(n)
    \/ \E s \in Segments, fast_field \in BOOLEAN : ForSegment(s, fast_field)
    \/ \E s \in Segments, doc \in DocIds, score \in Scores : Collect(s, doc, score)
    \/ \E s \in Segments : Harvest(s)
    \/ Merge

Spec == Init /\ [][Next]_vars

\* ------------------------------------------- the user of a PositionSerializer
\* The caller passes the first Err on (`?`) and makes no further call.
\* serializer.write(val)?
PosWrite(val, io) ==
    /\ pos_pc = "open" /\ all_ok /\ serializer.num_ints < MaxWrites
    /\ LET r == PositionSerializer_write(serializer, val, io)
       IN  /\ serializer' = r.self
           /\ all_ok' = (all_ok /\ r.ok)
           /\ num_written' = IF r.ok THEN num_written + 1 ELSE num_written
    /\ UNCHANGED <<pos_pc, collector_vars>>

\* serializer.write_all(vals)?
PosWriteAll(vals, io) ==
    /\ pos_pc = "open" /\ all_ok /\ serializer.num_ints + Len(vals) <= MaxWrites
    /\ LET r == PositionSerializer_write_all(serializer, vals, io)
       IN  /\ serializer' = r.self
           /\ all_ok' = (all_ok /\ r.ok)
           /\ num_written' = IF r.ok THEN num_written + Len(vals) ELSE num_written
    /\ UNCHANGED <<pos_pc, collector_vars>>

\* serializer.close()?: the serializer is moved into the call
PosClose(io) ==
    /\ pos_pc = "open" /\ all_ok
    /\ LET r == PositionSerializer_close(serializer, io)
       IN  /\ serializer' = r.self
           /\ all_ok' = (all_ok /\ r.ok)
    /\ pos_pc' = "closed"
    /\ UNCHANGED <<num_written, collector_vars>>

NextPos ==
    \/ \E val \in Vals, io \in WriteOutcomes : PosWrite(val, io)
    \/ \E vals \in Slices, io \in WriteOutcomes : PosWriteAll(vals, io)
    \/ \E io \in CloseOutcomes : PosClose(io)

SpecPos == Init /\ [][NextPos]_vars

\* ------------------------------------------------ reference definitions
Min(a, b) == IF a < b THEN a ELSE b
Range(f) == {f[k] : k \in DOMAIN f}
Started == {s \in Segments : s < num_segments}
Wrappers == collector.collector_wrappers

\* the ranking entries a score ranking has been shown in segment s, and in all
Entries(s) == {<<seglog[s][k][2], DocAddress(s, seglog[s][k][1])>> : k \in DOMAIN seglog[s]}
AllEntries == UNION {Entries(s) : s \in Segments}

\* r lists exactly the k highest-ranked entries of E, best first
IsTopK(r, E, k) ==
    /\ Len(r) = Min(k, Cardinality(E))
    /\ \A i \in DOMAIN r : r[i] \in E
    /\ \A i, j \in DOMAIN r : i < j => RanksAbove(r[i], r[j])
    /\ \A e \in E \ Range(r) : \A i \in DOMAIN r : RanksAbove(r[i], e)

\* a leaf segment collector after the events of a log, in order
RECURSIVE CollectAll(_, _, _)
CollectAll(child, reader, log) ==
    IF log = <<>> THEN child
    ELSE CollectAll(LeafChild_collect(child, reader, Head(log)[1], Head(log)[2]),
                    reader, Tail(log))

\* the fruit leaf collector c yields for segment s when it scans s alone
LeafFruitOf(c, s) ==
    LeafChild_harvest(CollectAll(Leaf_for_segment(c, s, readers[s]).val,
                                 readers[s], seglog[s]))

\* the final fruit leaf collector c yields when it runs alone over the same
\* segments and events, its fruits gathered in the same order
RunAlone(c) ==
    Leaf_merge_fruits(c, [k \in DOMAIN fruits |-> LeafFruitOf(c, fruits[k].segment)])

\* The document set as one segment: document doc of segment s is document
\* GlobalDoc(s, doc) of the whole set (the segments interleave the set).
GlobalDoc(s, doc) == doc * MaxSegments + s
WholeSet == UNION {{<<GlobalDoc(s, seglog[s][k][1]), seglog[s][k][2]>> :
                      k \in DOMAIN seglog[s]} : s \in Segments}

RECURSIVE AscendingLog(_)
AscendingLog(S) ==
    IF S = {} THEN <<>>
    ELSE LET m == CHOOSE x \in S : \A y \in S : x[1] <= y[1]
         IN  <<m>> \o AscendingLog(S \ {m})

\* the final fruit of leaf collector c run over the whole set as segment 0
RunWhole(c) ==
    LET reader == SegmentReader(TRUE)
        child == CollectAll(Leaf_for_segment(c, 0, reader).val, reader,
                            AscendingLog(WholeSet))
    IN  Leaf_merge_fruits(c, <<LeafChild_harvest(child)>>)

\* the ranked list of that run, by document: its addresses are (0, document)
WholeDocsOf(ranked) == [k \in DOMAIN ranked |-> <<ranked[k][1], ranked[k][2][2]>>]

\* a ranked list with every address replaced by the document it names
DocsOf(ranked) ==
    [k \in DOMAIN ranked |-> <<ranked[k][1], GlobalDoc(ranked[k][2][1], ranked[k][2][2])>>]

\* documents of equal score are in the same order by address as in the whole set
TiesKeepOrder ==
    \A e, f \in AllEntries :
        e[1] = f[1] /\ AddrLess(e[2], f[2])
            => GlobalDoc(e[2][1], e[2][2]) < GlobalDoc(f[2][1], f[2][2])

\* ------------------------------------------------------------ the claims
\* C1: for every limit K >= 1 the final result of TopDocs (collect per
\* segment, harvest, merge_fruits) is exactly the K highest-ranked entries,
\* by score descending and ascending address among equal scores, whatever
\* the order the entries reached collect and merge in.
C1_TopK ==
    (pc = "merged" /\ collector.kind = "TopDocs")
        => IsTopK(final.value, AllEntries, collector.limit)

\* C1 witness: a merged ranking that had to drop entries, with two entries
\* of equal score, the fruit of the later segment merged first
C1_Witness ==
    /\ pc = "merged" /\ collector.kind = "TopDocs"
    /\ Cardinality(AllEntries) > collector.limit
    /\ \E e, f \in AllEntries : e # f /\ e[1] = f[1]
    /\ Len(fruits) = 2 /\ fruits[1].segment > fruits[2].segment
    /\ fruits[1].fruit # <<>> /\ fruits[2].fruit # <<>>

\* C2 as stated: for any partition of a document set into segments, the
\* merged per-segment fruits of a ranking or counting collector name the
\* same documents, in the same order, as its run over the whole set as a
\* single segment.
C2_ShardInvariance ==
    /\ (pc = "merged" /\ collector.kind = "TopDocs")
          => DocsOf(final.value) = WholeDocsOf(RunWhole(collector))
    /\ (pc = "merged" /\ collector.kind = "CountCollector")
          => final.value = RunWhole(collector)

\* C2 amended: the same, for the partitions that keep documents of equal
\* score in their order (the count is the same for every partition).
C2_ShardInvarianceTies ==
    /\ (pc = "merged" /\ collector.kind = "TopDocs" /\ TiesKeepOrder)
          => DocsOf(final.value) = WholeDocsOf(RunWhole(collector))
    /\ (pc = "merged" /\ collector.kind = "CountCollector")
          => final.value = RunWhole(collector)

\* C2 witness: a ranking merged from two non-empty segments that dropped a
\* document and held two documents of equal score
C2_Witness ==
    /\ pc = "merged" /\ collector.kind = "TopDocs" /\ TiesKeepOrder
    /\ num_segments = 2 /\ seglog[0] # <<>> /\ Len(seglog[1]) = 2
    /\ Cardinality(AllEntries) > collector.limit
    /\ \E e, f \in AllEntries : e # f /\ e[1] = f[1]

\* the executor has asked requires_scoring() and begun the scan
Searched == pc \in {"scan", "merged", "aborted"} \/ error = "downcast"

\* C3 as stated: the final fruits a MultiCollector produces for its
\* collectors are, value for value, the final fruits each of them produces
\* when it runs alone over the same segments and events.
C3_CompositeInvariance ==
    (IsMulti(collector) /\ merge_calls = 1)
        => /\ final.some
           /\ Len(final.value) = Len(Wrappers)
           /\ \A i \in DOMAIN Wrappers :
                 /\ final.value[i].type = FruitTypeOfChild(ChildType(Wrappers[i]))
                 /\ final.value[i].value = RunAlone(Wrappers[i])

\* C4: TopDocs::with_limit(0) always panics, before any scan is entered,
\* and with_limit(K) for K >= 1 never panics: it yields a collector of limit K.
C4_LimitZeroFails ==
    /\ error = "with_limit" <=> limit_arg = 0
    /\ limit_arg = 0 =>
          /\ pc = "panicked" /\ made.kind = "None" /\ ~final.some
          /\ \A s \in Segments : seg_state[s] = "Unstarted"
    /\ made.kind \in {"TopDocs", "TopDocsByField"} =>
          made.limit = limit_arg /\ made.limit >= 1
    /\ \A i \in DOMAIN Wrappers : Wrappers[i].kind = "TopDocs" => Wrappers[i].limit >= 1
    /\ collector.kind = "TopDocs" => collector.limit >= 1

\* C4 witness: with_limit(0) was called after another collector had been
\* constructed and registered
C4_Witness ==
    /\ limit_arg = 0 /\ error = "with_limit"
    /\ IsMulti(collector) /\ Len(Wrappers) = 1 /\ Wrappers[1].kind = "TopDocs"

\* C5: requires_scoring() of a MultiCollector is true iff requires_scoring()
\* of at least one registered collector is true, and false iff it is false
\* for all of them (for no registered collector, false).
C5_RequiresScoring ==
    (Searched /\ IsMulti(collector)) =>
        /\ scoring <=> \E i \in DOMAIN Wrappers : Wrappers[i].kind = "TopDocs"
        /\ ~scoring <=> \A i \in DOMAIN Wrappers :
                            Wrappers[i].kind \in {"CountCollector", "TopDocsByField"}

\* C5 witness: a search with one registered collector that needs scores and
\* one that does not
C5_Witness ==
    /\ Searched /\ IsMulti(collector) /\ Len(Wrappers) = 2 /\ scoring
    /\ Wrappers[1].kind = "CountCollector" /\ Wrappers[2].kind = "TopDocs"

\* the leaf collectors of the query's collector
Leaves == IF IsMulti(collector) THEN Range(Wrappers) ELSE {collector}

\* C6: when for_segment of a registered collector fails for a segment,
\* MultiCollector::for_segment returns the error and builds no composite
\* segment collector for it; the query is aborted and never has a final fruit.
C6_ForSegmentError ==
    /\ \A s \in Segments :
          (Searched /\ IsMulti(collector) /\ ~readers[s].fast_field
             /\ \E i \in DOMAIN Wrappers :
                     ~Leaf_for_segment(Wrappers[i], s, readers[s]).ok)
          => /\ seg_state[s] = "Unstarted" /\ segment_collectors[s].kind = "None"
             /\ pc = "aborted" /\ error = "for_segment"
    /\ error = "for_segment" =>
          /\ pc = "aborted" /\ ~final.some /\ merge_calls = 0
          /\ \E s \in Started : seg_state[s] = "Unstarted" /\ ~readers[s].fast_field

\* C6 witness: the second collector of a MultiCollector failed for a
\* segment after another segment had been harvested
C6_Witness ==
    /\ error = "for_segment" /\ IsMulti(collector) /\ Len(Wrappers) = 2
    /\ Wrappers[1].kind = "TopDocs" /\ Wrappers[2].kind = "TopDocsByField"
    /\ ~readers[1].fast_field /\ seg_state[0] = "Harvested" /\ seglog[0] # <<>>

\* the children of the segment collector of a segment, by position
ChildSlots == IF IsMulti(collector) THEN DOMAIN Wrappers ELSE {1}
HarvestCount(s, i) ==
    Cardinality({k \in DOMAIN harvested_children[s] : harvested_children[s][k] = i})

\* the state part of C7: the children harvested so far, per segment
C7_Inv ==
    /\ \A s \in Segments :
          /\ seg_state[s] = "Harvested" =>
                /\ \A i \in ChildSlots : HarvestCount(s, i) = 1
                /\ Len(harvested_children[s]) = Cardinality(ChildSlots)
                /\ segment_collectors[s].kind = "None"
          /\ seg_state[s] # "Harvested" => harvested_children[s] = <<>>
    /\ merge_calls >= 1 => \A s \in Started : seg_state[s] = "Harvested"

\* the step part of C7: nothing reaches a harvested segment collector
C7_Step ==
    \A s \in Segments :
        seg_state[s] = "Harvested" =>
            /\ seg_state'[s] = "Harvested"
            /\ seglog'[s] = seglog[s]
            /\ harvested_children'[s] = harvested_children[s]
            /\ segment_collectors'[s].kind = "None"

\* C7: a segment collector is consumed by harvest: it, and each child of a
\* composite one, is harvested at most once, exactly once by the time the
\* query merges, and after its harvest it is gone and receives no collect.
C7_ConsumedByHarvest == []C7_Inv /\ [][C7_Step]_vars

\* C7 witness: a composite of two children was harvested for one segment
\* while the other segment goes on collecting
C7_Witness ==
    /\ IsMulti(collector) /\ Len(Wrappers) = 2
    /\ seg_state[0] = "Harvested" /\ seglog[0] # <<>>
    /\ seg_state[1] = "Collecting" /\ seglog[1] # <<>>

\* the state part of C8: what merge_fruits was called with, and when
C8_Inv ==
    /\ merge_calls <= 1
    /\ merge_calls = 1 <=> (pc = "merged" \/ error = "downcast")
    /\ final.some => merge_calls = 1
    /\ \A s \in Segments : s \notin Started => seg_state[s] = "Unstarted"
    /\ merge_calls = 1 =>
          /\ Len(fruits) = num_segments
          /\ \A s \in Started :
                /\ seg_state[s] = "Harvested"
                /\ Cardinality({k \in DOMAIN fruits : fruits[k].segment = s}) = 1
    /\ (merge_calls = 1 /\ IsMulti(collector)) =>
          /\ Len(segment_fruits_list) = Len(Wrappers)
          /\ \A i \in DOMAIN segment_fruits_list :
                Len(segment_fruits_list[i]) = num_segments

\* the step part of C8: a segment moves Unstarted -> Collecting ->
\* Harvested, and nothing moves once merge_fruits has run
C8_Step ==
    /\ merge_calls = 0
    /\ \A s \in Segments :
          \/ seg_state'[s] = seg_state[s]
          \/ seg_state[s] = "Unstarted" /\ seg_state'[s] = "Collecting"
          \/ seg_state[s] = "Collecting" /\ seg_state'[s] = "Harvested"

\* C8: the lifecycle Unstarted -> Collecting -> Harvested -> Merged is
\* respected: merge_fruits runs at most once per query, exactly once in a
\* query that is not aborted, only when every segment of the snapshot is
\* harvested, and receives exactly one fruit per segment (so does every
\* wrapper of a MultiCollector).
C8_Lifecycle == []C8_Inv /\ [][C8_Step]_vars

\* C8 witness: merge_fruits ran for a MultiCollector of two collectors over
\* two segments, the later segment harvested first
C8_Witness ==
    /\ merge_calls = 1 /\ IsMulti(collector) /\ Len(Wrappers) = 2
    /\ num_segments = 2 /\ fruits[1].segment = 1 /\ seglog[0] # <<>>

\* C9: the composite harvest of a segment returns exactly one fruit per
\* registered collector, and the fruit at position i is the one harvested
\* from the segment collector the i-th registered collector built.
C9_HarvestPositional ==
    IsMulti(collector) =>
        /\ \A s \in Segments :
              seg_state[s] = "Collecting" =>
                /\ Len(segment_collectors[s].children) = Len(Wrappers)
                /\ \A i \in DOMAIN Wrappers :
                      segment_collectors[s].children[i].kind = ChildType(Wrappers[i])
        /\ \A k \in DOMAIN fruits :
              /\ Len(fruits[k].fruit) = Len(Wrappers)
              /\ \A i \in DOMAIN Wrappers :
                    /\ fruits[k].fruit[i].type = FruitTypeOfChild(ChildType(Wrappers[i]))
                    /\ fruits[k].fruit[i].value = LeafFruitOf(Wrappers[i], fruits[k].segment)

\* C9 witness: a composite of a counting and a ranking collector was
\* harvested for a segment that had matches
C9_Witness ==
    /\ IsMulti(collector) /\ Len(Wrappers) = 2
    /\ Wrappers[1].kind = "CountCollector" /\ Wrappers[2].kind = "TopDocs"
    /\ Len(fruits) = 2 /\ seglog[fruits[1].segment] # <<>>

\* C10 as stated: every AnyFruit handed to a wrapper's merge_children_anys
\* has the type the wrapper downcasts to, so downcast + unwrap never fails.
C10_DowncastNeverFails ==
    /\ error # "downcast"
    /\ \A i \in DOMAIN segment_fruits_list : \A k \in DOMAIN segment_fruits_list[i] :
          Downcast(DowncastTarget(Wrappers[i]), segment_fruits_list[i][k]).ok

\* a segment collector after the events of a log, in order, nothing else
\* running beside it
RECURSIVE ScanAlone(_, _, _)
ScanAlone(child, reader, log) ==
    IF log = <<>> THEN child
    ELSE ScanAlone(SegmentCollector_collect(child, reader, Head(log)[1], Head(log)[2]),
                   reader, Tail(log))

\* the segment collector of segment s when s is scanned with no other
\* segment in progress, and its fruit
SequentialChild(s) ==
    ScanAlone(Collector_for_segment(collector, s, readers[s]).val, readers[s], seglog[s])
SequentialFruits ==
    [k \in 1 .. num_segments |-> SegmentCollector_harvest(SequentialChild(k - 1))]

\* the state part of C11: what every segment holds and yields is what its
\* own events alone make of it, and the merge ends as it does for the
\* fruits of the segments scanned one after another
C11_Inv ==
    /\ \A s \in Segments :
          seg_state[s] = "Collecting" => segment_collectors[s] = SequentialChild(s)
    /\ \A k \in DOMAIN fruits :
          fruits[k].fruit = SegmentCollector_harvest(SequentialChild(fruits[k].segment))
    /\ pc = "merged" =>
          /\ ~Collector_merge_fruits(collector, SequentialFruits).panic
          /\ final.value = Collector_merge_fruits(collector, SequentialFruits).val
    /\ error = "downcast" => Collector_merge_fruits(collector, SequentialFruits).panic

\* the step part of C11: a step on one segment leaves the collector and the
\* events of every other segment as they were
C11_Step ==
    \A s, t \in Segments :
        (s # t /\ (segment_collectors'[s] # segment_collectors[s]
                     \/ seglog'[s] # seglog[s]))
            => /\ segment_collectors'[t] = segment_collectors[t]
               /\ seglog'[t] = seglog[t]

\* C11: for every interleaving of the collect and harvest steps of
\* different segments, each segment's fruit and the final merged fruit are
\* the ones of the segments scanned one after another; a collect on one
\* segment collector never changes the state of another.
C11_Interleaving == []C11_Inv /\ [][C11_Step]_vars

\* C11 witness: a ranking merged from two segments of two matches each,
\* the later segment harvested first, with more entries than the limit
C11_Witness ==
    /\ pc = "merged" /\ collector.kind = "TopDocs"
    /\ num_segments = 2 /\ fruits[1].segment = 1
    /\ Len(seglog[0]) = 2 /\ Len(seglog[1]) = 2
    /\ Cardinality(AllEntries) > collector.limit

\* C12 as stated: harvest is valid at any point after construction: after
\* any prefix of a segment's matches, the empty one included, harvest
\* returns the fruit of exactly the events collected so far, and the later
\* merge_fruits succeeds with that fruit.
C12_HarvestAnyPoint ==
    /\ \A k \in DOMAIN fruits :
          fruits[k].fruit = SegmentCollector_harvest(SequentialChild(fruits[k].segment))
    /\ \A s \in Segments :
          seg_state[s] = "Harvested" => \E k \in DOMAIN fruits : fruits[k].segment = s
    /\ merge_calls = 1 => (pc = "merged" /\ final.some)

\* the registered collectors are a counting collector and a top-2 score
\* ranking, in either order
CountAndTop2 ==
    /\ IsMulti(collector) /\ Len(Wrappers) = 2
    /\ \E i, j \in DOMAIN Wrappers :
          /\ Wrappers[i].kind = "CountCollector"
          /\ Wrappers[j].kind = "TopDocs" /\ Wrappers[j].limit = 2

\* the number of collect events over all segments
TotalEvents == Sum([k \in 1 .. MaxSegments |-> Len(seglog[k - 1])])

\* C13 as stated: a counting collector and a top-2 ranking registered with
\* one MultiCollector and searched over one or more segments end with the
\* count equal to the total number of collect events and the ranking equal
\* to the two best-scored matches, best first.
C13_CountAndTop2 ==
    (CountAndTop2 /\ num_segments >= 1 /\ merge_calls = 1) =>
        /\ final.some
        /\ Len(final.value) = 2
        /\ \A i \in DOMAIN Wrappers :
              /\ Wrappers[i].kind = "CountCollector"
                    => final.value[i].value = TotalEvents
              /\ Wrappers[i].kind = "TopDocs"
                    => IsTopK(final.value[i].value, AllEntries, 2)

\* the permutations of 1..n
Perms(n) == {p \in [1 .. n -> 1 .. n] : \A i, j \in 1 .. n : p[i] = p[j] => i = j}

\* the gathered fruits in the order p
Permuted(p) == [k \in DOMAIN p |-> GatheredFruits[p[k]]]

\* the fruits merged as a tree: the first j and the others merged apart,
\* then the two results merged
TreeMerge(c, child_fruits, j) ==
    TopDocs_merge_fruits(c,
        << TopDocs_merge_fruits(c, SubSeq(child_fruits, 1, j)),
           TopDocs_merge_fruits(c, SubSeq(child_fruits, j + 1, Len(child_fruits))) >>)

C15_Transposition ==
    (IsMulti(collector) /\ merge_calls = 1) =>
        /\ Len(segment_fruits_list) = Len(Wrappers)
        /\ \A i \in DOMAIN Wrappers :
              /\ Len(segment_fruits_list[i]) = Len(fruits)
              /\ \A k \in DOMAIN fruits :
                    segment_fruits_list[i][k] = fruits[k].fruit[i]
        /\ final.some
        /\ Len(final.value) = Len(Wrappers)
        /\ \A i \in DOMAIN Wrappers :
              final.value[i].value =
                  Leaf_merge_fruits(Wrappers[i],
                      [k \in DOMAIN fruits |-> fruits[k].fruit[i].value])

\* C16: every collect(doc, score) the composite segment collector receives
\* is forwarded to every child exactly once, with the same doc and score:
\* each child has received exactly the composite's sequence of events, in
\* its order, none dropped, doubled or altered.
C16_Forwarding ==
    \A s \in Segments :
        (IsMulti(collector) /\ seg_state[s] = "Collecting") =>
            /\ segment_collectors[s].seen = seglog[s]
            /\ \A i \in DOMAIN segment_collectors[s].children :
                  segment_collectors[s].children[i].seen = seglog[s]

\* C16 witness: a composite of a counting and a ranking child has received
\* two events of different scores
C16_Witness ==
    /\ IsMulti(collector) /\ Len(Wrappers) = 2
    /\ Wrappers[1].kind = "CountCollector" /\ Wrappers[2].kind = "TopDocs"
    /\ seg_state[0] = "Collecting" /\ Len(seglog[0]) = 2
    /\ seglog[0][1][2] # seglog[0][2][2]
    /\ Len(segment_collectors[0].children) = 2

\* the leaf segment collectors of a segment collector, by position
LeafChildren(child) ==
    IF child.kind = "MultiCollectorChild" THEN child.children ELSE <<child>>

\* the score ranking heaps of segment s, before and after a step
IsTopScore(s, i) ==
    /\ i \in DOMAIN LeafChildren(segment_collectors[s])
    /\ LeafChildren(segment_collectors[s])[i].kind = "TopScoreSegmentCollector"

\* the state part of C17: a heap never holds more than K entries
C17_Inv ==
    \A s \in Segments : \A i \in 1 .. MaxCollectors :
        IsTopScore(s, i) =>
            Cardinality(LeafChildren(segment_collectors[s])[i].heap)
                <= LeafChildren(segment_collectors[s])[i].limit

\* the step part of C17: what one collect does to a heap of K
C17_Step ==
    \A s \in Segments : \A i \in 1 .. MaxCollectors :
        (IsTopScore(s, i) /\ Len(seglog'[s]) = Len(seglog[s]) + 1) =>
            LET K == LeafChildren(segment_collectors[s])[i].limit
                heap == LeafChildren(segment_collectors[s])[i].heap
                after == LeafChildren(segment_collectors'[s])[i].heap
                event == seglog'[s][Len(seglog'[s])]
                entry == <<event[2], DocAddress(s, event[1])>>
            IN  IF Cardinality(heap) < K
                THEN after = heap \cup {entry} /\ entry \notin heap
                ELSE \E m \in heap :
                        /\ \A e \in heap \ {m} : RanksAbove(e, m)
                        /\ IF RanksAbove(entry, m)
                           THEN after = (heap \ {m}) \cup {entry}
                           ELSE after = heap

IsRanked(r, E, K) ==
    /\ \A i, j \in DOMAIN r : i < j => RanksAbove(r[i], r[j])
    /\ Len(r) = Min(K, Cardinality(E))
    /\ Range(r) \subseteq E
    /\ Cardinality(E) < K =>
          \A e \in E : Cardinality({i \in DOMAIN r : r[i] = e}) = 1

\* C18: every sequence a score ranking returns, from the harvest of a
\* segment and from the final merge, is sorted by score descending, equal
\* scores by ascending address, and has length min(K, n) for n matches;
\* when fewer than K matched, every match appears exactly once.
C18_SortedFruits ==
    /\ \A k \in DOMAIN fruits :
          /\ collector.kind = "TopDocs" =>
                IsRanked(fruits[k].fruit, Entries(fruits[k].segment), collector.limit)
          /\ IsMulti(collector) =>
                \A i \in DOMAIN Wrappers :
                    Wrappers[i].kind = "TopDocs" =>
                        IsRanked(fruits[k].fruit[i].value, Entries(fruits[k].segment),
                                 Wrappers[i].limit)
    /\ (pc = "merged" /\ collector.kind = "TopDocs") =>
          IsRanked(final.value, AllEntries, collector.limit)

\* C18 witness: a ranking of limit 2 merged from a segment of two matches,
\* the better one collected last, and a segment of a single match (fewer
\* than the limit): three matches for a final sequence of two
C18_Witness ==
    /\ pc = "merged" /\ collector.kind = "TopDocs" /\ collector.limit = 2
    /\ num_segments = 2 /\ Len(seglog[0]) = 2 /\ Len(seglog[1]) = 1
    /\ seglog[0][1][2] < seglog[0][2][2]
    /\ Len(final.value) = 2

\* the blocks flushed so far: one write to the stream per block
BlocksFlushed == Len(serializer.write_stream)

\* C19: for a fresh PositionSerializer, after any sequence of write and
\* write_all calls that all returned Ok, positions_idx() is the number of
\* values written, the pending block holds positions_idx() mod
\* COMPRESSION_BLOCK_SIZE values (fewer than a block), and the number of
\* blocks flushed is positions_idx() div COMPRESSION_BLOCK_SIZE.
C19_WriteCounts ==
    (pos_pc = "open" /\ all_ok) =>
        /\ PositionSerializer_positions_idx(serializer) = num_written
        /\ Len(serializer.block)
              = PositionSerializer_positions_idx(serializer) % COMPRESSION_BLOCK_SIZE
        /\ Len(serializer.block) < COMPRESSION_BLOCK_SIZE
        /\ BlocksFlushed
              = PositionSerializer_positions_idx(serializer) \div COMPRESSION_BLOCK_SIZE

\* C19 witness: two blocks were flushed and one value is pending
C19_Witness ==
    /\ pos_pc = "open" /\ all_ok
    /\ num_written = 2 * COMPRESSION_BLOCK_SIZE + 1
    /\ BlocksFlushed = 2 /\ Len(serializer.block) = 1

\* ceil(n / d)
CeilDiv(n, d) == (n + d - 1) \div d

\* what a close that returned Ok has made of the serializer of n writes
C20_Step ==
    (pos_pc = "open" /\ pos_pc' = "closed" /\ all_ok') =>
        LET pending == serializer.block
            padded == pending \o [k \in 1 .. (COMPRESSION_BLOCK_SIZE - Len(pending)) |-> 0]
            flushes == IF pending # <<>> THEN 1 ELSE 0
        IN  /\ Len(serializer'.write_stream) = BlocksFlushed + flushes
            /\ Len(serializer'.write_stream)
                  = CeilDiv(num_written, COMPRESSION_BLOCK_SIZE)
            /\ pending # <<>> => serializer'.buffer.ints = padded
            /\ pending = <<>> => serializer'.buffer = serializer.buffer
            /\ serializer'.long_skips = serializer.long_skips
            /\ serializer'.write_skiplist =
                  serializer.write_skiplist
                  \o (IF pending # <<>>
                      THEN <<Bytes(1, BitPacker_num_bits(padded))>> ELSE <<>>)
                  \o [k \in DOMAIN serializer.long_skips |->
                         Bytes(8, serializer.long_skips[k])]
                  \o <<Bytes(4, Len(serializer.long_skips))>>

\* C20: close after n successful writes flushes the pending block exactly
\* once, zero-padded to COMPRESSION_BLOCK_SIZE, iff it is non-empty, so
\* ceil(n / COMPRESSION_BLOCK_SIZE) blocks are written in all; the padded
\* flush adds no long skip; close then writes every recorded long skip in
\* recording order, followed by their count.
C20_Close == [][C20_Step]_vars

\* C20 witness: a serializer closed with one value pending after two long
\* skips of different values were recorded
C20_Witness ==
    /\ pos_pc = "closed" /\ all_ok
    /\ num_written = 2 * LONG_SKIP_INTERVAL + 1
    /\ Len(serializer.long_skips) = 2
    /\ serializer.long_skips[1] # serializer.long_skips[2]
    /\ Len(serializer.buffer.ints) = COMPRESSION_BLOCK_SIZE
    /\ serializer.buffer.ints[1] = 1 /\ serializer.buffer.ints[2] = 0
    /\ Len(serializer.write_stream) = 2 * LONG_SKIP_IN_BLOCKS + 1

====
